---- MODULE Spec2Model ----
(***************************************************************************)
(* Model of the syscall hints of src/src/hints/syscalls.rs: the per-syscall *)
(* delegation hints, set_syscall_ptr, fetch_state_entry,                    *)
(* cache_contract_storage and the response verifier.                        *)
(*                                                                          *)
(* Values of VM memory (MaybeRelocatable, and Option of it) are 3-tuples:   *)
(*   <<"None", 0, 0>>   an unwritten cell / Option::None                    *)
(*   <<"Int", n, 0>>    a field element n                                   *)
(*   <<"Rel", s, o>>    the relocatable address (segment s, offset o)       *)
(* VM memory is a function from the written addresses <<s, o>> to values.   *)
(***************************************************************************)
EXTENDS Integers, Sequences, FiniteSets, TLC

VARIABLES
    num_segments,   \* vm.segments.num_segments()
    memory,         \* vm memory: written address -> value
    fp,             \* vm frame pointer (offset in the execution segment)
    exec_scopes,    \* ExecutionScopes: syscall_handler, execution_helper, dict_manager
    pending,        \* per-syscall hint whose request the program has not stepped past yet
    halted,         \* the run was aborted by a hint error or a panic
    last,           \* the last hint that ran: its name, inputs and outcome
    hist            \* outcomes of earlier hints of the run

vars == <<num_segments, memory, fp, exec_scopes, pending, halted, last, hist>>

(***************************************************************************)
(* Bounds of the model.                                                     *)
(***************************************************************************)
MaxSegments == 6
MaxFrames == 3
MaxOffset == 10
MaxLen == 2

(***************************************************************************)
(* Values and memory.                                                       *)
(***************************************************************************)
None == <<"None", 0, 0>>
Felt(n) == <<"Int", n, 0>>
Rel(s, o) == <<"Rel", s, o>>

IsFelt(v) == v[1] = "Int"
IsRel(v) == v[1] = "Rel"

EmptyMemory == [a \in {} |-> None]

\* vm.get_maybe: the cell's value, None when it was never written
Get(mem, a) == IF a \in DOMAIN mem THEN mem[a] ELSE None

\* The execution segment holds the frame the identifiers are bound in.
ExecutionSegment == 1

\* The first frame, as in test_set_syscall_ptr (vm.set_fp(2)).
FirstFp == 2

\* Cells of a frame: the identifiers are bound at fp-2 .. fp+8.
FrameSize == 11

\* The program can still open a frame after the frame at `frame`.
NextFrameExists(frame) == frame + FrameSize <= FirstFp + FrameSize * (MaxFrames - 1)

\* ids_data: the cell an identifier is bound to, relative to fp. os_context
\* and syscall_ptr are bound as in test_set_syscall_ptr.
ids_offset(name) ==
    CASE name = "os_context" -> 0 - 2
      [] name = "syscall_ptr" -> 0 - 1
      [] name = "retdata" -> 0
      [] name = "retdata_size" -> 1
      [] name = "call_response" -> 2
      [] name = "response" -> 3
      [] name = "contract_address" -> 4
      [] name = "value" -> 5
      [] name = "contract_state_changes" -> 6
      [] name = "state_entry" -> 7
      [] name = "new_state_entry" -> 8

ids_addr(frame, name) == <<ExecutionSegment, frame + ids_offset(name)>>

\* insert_value_from_var_name: memory is write-once; writing a cell that
\* holds another value fails (InconsistentMemory).
insert_value_from_var_name(mem, frame, name, value) ==
    LET a == ids_addr(frame, name) IN
    IF Get(mem, a) = None
    THEN [ok |-> TRUE, memory |-> (a :> value) @@ mem]
    ELSE [ok |-> Get(mem, a) = value, memory |-> mem]

\* get_ptr_from_var_name: the identifier's cell must hold a relocatable
get_ptr_from_var_name(mem, frame, name) ==
    LET v == Get(mem, ids_addr(frame, name)) IN
    [ok |-> IsRel(v), value |-> v]

\* get_integer_from_var_name: the identifier's cell must hold a field element
get_integer_from_var_name(mem, frame, name) ==
    LET v == Get(mem, ids_addr(frame, name)) IN
    [ok |-> IsFelt(v), value |-> v]

(***************************************************************************)
(* The execution scope.                                                     *)
(***************************************************************************)
NoHandler == [kind |-> "none", ptr |-> None]

\* The oracle's storage cache: (contract address, key) -> value
EmptyStorage == [pair \in {} |-> 0]
NoHelper == [present |-> FALSE, storage_by_address |-> EmptyStorage]

\* The dict manager with the tracker of one dictionary: the tracker's
\* current_ptr and its data, a SimpleDictionary or a DefaultDictionary.
EmptyDict == [key \in {} |-> None]
NoDictManager ==
    [present |-> FALSE, current_ptr |-> None, kind |-> "none",
     dict |-> EmptyDict, default_value |-> None]

\* ExecutionScopes::new()
EmptyScopes ==
    [syscall_handler |-> NoHandler, execution_helper |-> NoHelper,
     dict_manager |-> NoDictManager]

\* exec_scopes.get::<T>(name): the entry must exist and be of type T
scope_get_handler(scopes, kind) ==
    [ok |-> scopes.syscall_handler.kind = kind, value |-> scopes.syscall_handler]

(***************************************************************************)
(* The Active Syscall Handler (src/execution, not part of the hints file).  *)
(***************************************************************************)
SyscallNames ==
    {"call_contract", "delegate_call", "delegate_l1_handler", "deploy",
     "emit_event", "get_block_number", "get_block_timestamp",
     "get_caller_address", "get_contract_address", "get_sequencer_address",
     "get_tx_info", "get_tx_signature", "library_call",
     "library_call_l1_handler", "replace_class", "send_message_to_l1",
     "storage_read", "storage_write"}

\* Number of cells of a syscall's request+response pair in the syscall segment.
PairSize(syscall) ==
    CASE syscall \in {"call_contract", "delegate_call", "delegate_l1_handler",
                      "library_call", "library_call_l1_handler"} -> 7
      [] syscall = "deploy" -> 9
      [] syscall = "emit_event" -> 5
      [] syscall = "send_message_to_l1" -> 4
      [] syscall \in {"storage_read", "storage_write", "get_tx_signature"} -> 3
      [] OTHER -> 2

\* A handler method: it serves the request at ptr and leaves the handler's
\* pointer past that method's request+response pair.
handler_method(handler, method, ptr) ==
    [handler EXCEPT !.ptr = Rel(ptr[2], ptr[3] + PairSize(method))]

\* OsSyscallHandlerWrapper::set_syscall_ptr
handler_set_syscall_ptr(handler, ptr) == [handler EXCEPT !.ptr = ptr]

(***************************************************************************)
(* Outcome records of the syscall-lifecycle hints.                          *)
(***************************************************************************)
NoLast ==
    [hint |-> "none", result |-> "none", calls |-> <<>>, n |-> 0,
     before |-> None, arg |-> None]

Outcome(hint, result, calls, before, arg) ==
    [hint |-> hint, result |-> result, calls |-> calls, n |-> num_segments,
     before |-> before, arg |-> arg]

\* A hint that returns Err ends the run: the VM stops at the first hint error.
HintFails(hint, result) ==
    /\ halted' = TRUE
    /\ last' = Outcome(hint, result, <<>>, exec_scopes.syscall_handler.ptr, None)
    /\ UNCHANGED <<num_segments, memory, fp, exec_scopes, pending, hist>>

(***************************************************************************)
(* The per-syscall hints. Each fetches the handler from the scope, resolves *)
(* ids.syscall_ptr and calls one handler method; `propagates` says whether  *)
(* the hint applies `?` to the method's result. A method that fails leaves  *)
(* the handler as it was; a hint without `?` then returns Ok all the same.  *)
(***************************************************************************)
\* What the hint returns, given whether the handler method succeeded.
syscall_hint_result(propagates, method_ok) ==
    IF method_ok THEN "Ok"
    ELSE IF propagates THEN "HandlerError"
    ELSE "Ok"

syscall_hint(hint, method, propagates) ==
    /\ ~halted
    /\ pending = "none"
    /\ LET h == scope_get_handler(exec_scopes, "DeprecatedOsSyscallHandlerWrapper")
           p == get_ptr_from_var_name(memory, fp, "syscall_ptr")
       IN
       IF ~h.ok THEN HintFails(hint, "VariableNotInScope")
       ELSE IF ~p.ok THEN HintFails(hint, "IdentifierNotRelocatable")
       ELSE /\ p.value[3] + PairSize(method) <= MaxOffset
            /\ \E method_ok \in BOOLEAN :
                  LET result == syscall_hint_result(propagates, method_ok) IN
                  /\ exec_scopes' =
                        IF method_ok
                        THEN [exec_scopes EXCEPT !.syscall_handler =
                                handler_method(h.value, method, p.value)]
                        ELSE exec_scopes
                  /\ pending' = IF result = "Ok" THEN hint ELSE pending
                  /\ halted' = (result # "Ok")
                  /\ last' = Outcome(hint, result, <<<<method, p.value, method_ok>>>>,
                                     h.value.ptr, p.value)
                  /\ UNCHANGED <<num_segments, memory, fp, hist>>

call_contract ==
    /\ ~halted
    /\ syscall_hint("call_contract", "call_contract", TRUE)
delegate_call ==
    /\ ~halted
    /\ syscall_hint("delegate_call", "storage_write", FALSE)
delegate_l1_handler ==
    /\ ~halted
    /\ syscall_hint("delegate_l1_handler", "delegate_l1_handler", FALSE)
deploy ==
    /\ ~halted
    /\ syscall_hint("deploy", "deploy", FALSE)
emit_event ==
    /\ ~halted
    /\ syscall_hint("emit_event", "emit_event", FALSE)
get_block_number ==
    /\ ~halted
    /\ syscall_hint("get_block_number", "get_block_number", FALSE)
get_block_timestamp ==
    /\ ~halted
    /\ syscall_hint("get_block_timestamp", "get_block_timestamp", FALSE)
get_caller_address ==
    /\ ~halted
    /\ syscall_hint("get_caller_address", "get_caller_address", FALSE)
get_contract_address ==
    /\ ~halted
    /\ syscall_hint("get_contract_address", "get_contract_address", FALSE)
get_sequencer_address ==
    /\ ~halted
    /\ syscall_hint("get_sequencer_address", "get_sequencer_address", FALSE)
get_tx_info ==
    /\ ~halted
    /\ syscall_hint("get_tx_info", "get_tx_info", FALSE)
get_tx_signature ==
    /\ ~halted
    /\ syscall_hint("get_tx_signature", "get_tx_signature", FALSE)
library_call ==
    /\ ~halted
    /\ syscall_hint("library_call", "library_call", FALSE)
library_call_l1_handler ==
    /\ ~halted
    /\ syscall_hint("library_call_l1_handler", "library_call_l1_handler", FALSE)
replace_class ==
    /\ ~halted
    /\ syscall_hint("replace_class", "replace_class", FALSE)
send_message_to_l1 ==
    /\ ~halted
    /\ syscall_hint("send_message_to_l1", "send_message_to_l1", FALSE)
storage_read ==
    /\ ~halted
    /\ syscall_hint("storage_read", "storage_read", TRUE)
storage_write ==
    /\ ~halted
    /\ syscall_hint("storage_write", "storage_write", FALSE)

(***************************************************************************)
(* set_syscall_ptr                                                          *)
(***************************************************************************)
\* Mutation: the two segments are handed out in the other order.
set_syscall_ptr_segments_swapped(n) ==
    [os_context |-> Rel(n + 1, 0), syscall_ptr |-> Rel(n, 0)]

\* The two vm.add_memory_segment() calls on a VM that has n segments.
set_syscall_ptr_segments(n) ==
    [os_context |-> Rel(n, 0), syscall_ptr |-> Rel(n + 1, 0)]

\* The pointer handed to syscall_handler.set_syscall_ptr.
set_syscall_ptr_installed(segs) == segs.syscall_ptr

\* Mutation: the handler is looked up first, and a failed lookup returns
\* before anything is allocated or written.
set_syscall_ptr_effects_lookup_first(n, mem, frame, scopes) ==
    LET segs == set_syscall_ptr_segments(n)
        w1 == insert_value_from_var_name(mem, frame, "os_context", segs.os_context)
        w2 == insert_value_from_var_name(w1.memory, frame, "syscall_ptr", segs.syscall_ptr)
        h == scope_get_handler(scopes, "OsSyscallHandlerWrapper")
        result == IF ~h.ok THEN "VariableNotInScope"
                  ELSE IF ~w1.ok \/ ~w2.ok THEN "InconsistentMemory"
                  ELSE "Ok"
    IN
    [result |-> result,
     num_segments |-> IF ~h.ok THEN n ELSE n + 2,
     memory |-> IF ~h.ok \/ ~w1.ok THEN mem ELSE w2.memory,
     scopes |-> IF result = "Ok"
                THEN [scopes EXCEPT !.syscall_handler =
                        handler_set_syscall_ptr(h.value, set_syscall_ptr_installed(segs))]
                ELSE scopes]

\* The steps of set_syscall_ptr in the order of the code: two segments, the
\* two identifier writes, then the handler lookup and the handler's pointer.
\* Each `?` returns with what was done so far left in place.
set_syscall_ptr_effects(n, mem, frame, scopes) ==
    LET segs == set_syscall_ptr_segments(n)
        w1 == insert_value_from_var_name(mem, frame, "os_context", segs.os_context)
        w2 == insert_value_from_var_name(w1.memory, frame, "syscall_ptr", segs.syscall_ptr)
        h == scope_get_handler(scopes, "OsSyscallHandlerWrapper")
        result == IF ~w1.ok \/ ~w2.ok THEN "InconsistentMemory"
                  ELSE IF ~h.ok THEN "VariableNotInScope"
                  ELSE "Ok"
    IN
    [result |-> result,
     num_segments |-> n + 2,
     memory |-> IF ~w1.ok THEN mem ELSE w2.memory,
     scopes |-> IF result = "Ok"
                THEN [scopes EXCEPT !.syscall_handler =
                        handler_set_syscall_ptr(h.value, set_syscall_ptr_installed(segs))]
                ELSE scopes]

set_syscall_ptr ==
    /\ ~halted
    /\ pending = "none"
    /\ num_segments + 2 <= MaxSegments
    /\ LET e == set_syscall_ptr_effects(num_segments, memory, fp, exec_scopes) IN
       /\ num_segments' = e.num_segments
       /\ memory' = e.memory
       /\ exec_scopes' = e.scopes
       /\ halted' = (e.result # "Ok")
       /\ last' = Outcome("set_syscall_ptr", e.result, <<>>,
                          exec_scopes.syscall_handler.ptr, None)
       /\ UNCHANGED <<fp, pending, hist>>

(***************************************************************************)
(* The surroundings of the hints: the VM, the scope and the program.        *)
(***************************************************************************)
\* vm.add_memory_segment() by the runner
add_memory_segment ==
    /\ ~halted
    /\ pending = "none"
    /\ num_segments < MaxSegments
    /\ num_segments' = num_segments + 1
    /\ last' = NoLast
    /\ UNCHANGED <<memory, fp, exec_scopes, pending, halted, hist>>

\* exec_scopes.insert_value(SYSCALL_HANDLER, OsSyscallHandlerWrapper::new(..))
insert_os_syscall_handler ==
    /\ ~halted
    /\ pending = "none"
    /\ exec_scopes.syscall_handler.kind # "OsSyscallHandlerWrapper"
    /\ exec_scopes' = [exec_scopes EXCEPT !.syscall_handler =
            [kind |-> "OsSyscallHandlerWrapper", ptr |-> None]]
    /\ last' = NoLast
    /\ UNCHANGED <<num_segments, memory, fp, pending, halted, hist>>

\* The scope entered for a deprecated contract: its handler starts at the
\* program's syscall pointer.
insert_deprecated_syscall_handler ==
    /\ ~halted
    /\ pending = "none"
    /\ exec_scopes.syscall_handler.kind # "DeprecatedOsSyscallHandlerWrapper"
    /\ IsRel(Get(memory, ids_addr(fp, "syscall_ptr")))
    /\ exec_scopes' = [exec_scopes EXCEPT !.syscall_handler =
            [kind |-> "DeprecatedOsSyscallHandlerWrapper",
             ptr |-> Get(memory, ids_addr(fp, "syscall_ptr"))]]
    /\ last' = NoLast
    /\ UNCHANGED <<num_segments, memory, fp, pending, halted, hist>>

\* The program steps past the request+response pair of the syscall it issued
\* and binds syscall_ptr to the next request in a new frame.
program_step ==
    /\ ~halted
    /\ pending # "none"
    /\ NextFrameExists(fp)
    /\ LET p == Get(memory, ids_addr(fp, "syscall_ptr")) IN
       memory' = (ids_addr(fp + FrameSize, "syscall_ptr") :>
                    Rel(p[2], p[3] + PairSize(pending))) @@ memory
    /\ fp' = fp + FrameSize
    /\ pending' = "none"
    /\ last' = NoLast
    /\ UNCHANGED <<num_segments, exec_scopes, halted, hist>>

\* A new contract invocation: a frame whose identifiers are not written yet.
new_invocation ==
    /\ ~halted
    /\ pending = "none"
    /\ NextFrameExists(fp)
    /\ fp' = fp + FrameSize
    /\ last' = NoLast
    /\ UNCHANGED <<num_segments, memory, exec_scopes, pending, halted, hist>>

Init ==
    /\ num_segments = 2
    /\ memory = EmptyMemory
    /\ fp = FirstFp
    /\ exec_scopes = EmptyScopes
    /\ pending = "none"
    /\ halted = FALSE
    /\ last = NoLast
    /\ hist = <<>>

Next ==
    \/ call_contract
    \/ delegate_call
    \/ delegate_l1_handler
    \/ deploy
    \/ emit_event
    \/ get_block_number
    \/ get_block_timestamp
    \/ get_caller_address
    \/ get_contract_address
    \/ get_sequencer_address
    \/ get_tx_info
    \/ get_tx_signature
    \/ library_call
    \/ library_call_l1_handler
    \/ replace_class
    \/ send_message_to_l1
    \/ storage_read
    \/ storage_write
    \/ set_syscall_ptr
    \/ add_memory_segment
    \/ insert_os_syscall_handler
    \/ insert_deprecated_syscall_handler
    \/ program_step
    \/ new_invocation

Spec == Init /\ [][Next]_vars

(***************************************************************************)
(* The response verifier.                                                   *)
(***************************************************************************)
\* Field offsets of the response structs (crate::cairo_types::syscalls).
retdata_size_offset == 0
retdata_offset == 1
retdata_start_offset == 0
retdata_end_offset == 1
constructor_retdata_start_offset == 1
constructor_retdata_end_offset == 2

\* usize::MAX, scaled down to the model: larger field elements do not convert.
UsizeMax == MaxLen

\* Relocatable + usize
relocatable_add(ptr, i) == Rel(ptr[2], ptr[3] + i)

\* Mutation: the end pointer is taken as the last element, not one past it.
relocatable_sub_inclusive(end, start) ==
    IF end[2] # start[2] THEN [ok |-> FALSE, value |-> 0]
    ELSE IF end[3] < start[3] THEN [ok |-> FALSE, value |-> 0]
    ELSE [ok |-> TRUE, value |-> end[3] - start[3] + 1]

\* Mutation: a difference that does not exist is taken to be 0.
relocatable_sub_saturating(end, start) ==
    IF end[2] # start[2] THEN [ok |-> TRUE, value |-> 0]
    ELSE IF end[3] < start[3] THEN [ok |-> TRUE, value |-> 0]
    ELSE [ok |-> TRUE, value |-> end[3] - start[3]]

\* Relocatable - Relocatable: an error unless both lie in one segment and
\* end is not below start.
relocatable_sub(end, start) ==
    IF end[2] # start[2] THEN [ok |-> FALSE, value |-> 0]
    ELSE IF end[3] < start[3] THEN [ok |-> FALSE, value |-> 0]
    ELSE [ok |-> TRUE, value |-> end[3] - start[3]]

\* vm.get_relocatable: the cell must hold a relocatable
vm_get_relocatable(mem, ptr) ==
    LET v == Get(mem, <<ptr[2], ptr[3]>>) IN [ok |-> IsRel(v), value |-> v]

\* vm.get_integer: the cell must hold a field element
vm_get_integer(mem, ptr) ==
    LET v == Get(mem, <<ptr[2], ptr[3]>>) IN [ok |-> IsFelt(v), value |-> v]

\* felt_to_usize: fails when the field element exceeds usize::MAX
felt_to_usize(felt) == [ok |-> felt[2] <= UsizeMax, value |-> felt[2]]

\* vm.get_range: `size` cells from ptr on, an unwritten cell read as None
get_range(mem, ptr, size) ==
    [i \in 1..size |-> Get(mem, <<ptr[2], ptr[3] + i - 1>>)]

CheckError(kind) ==
    [kind |-> kind, expected |-> <<>>, actual |-> <<>>, compared |-> FALSE,
     expected_ptr |-> None, expected_size |-> 0, actual_ptr |-> None, actual_size |-> 0]

\* Mutation: the two ranges are compared over their common prefix only.
assert_memory_ranges_equal_prefix(mem, expected_ptr, expected_size, actual_ptr, actual_size) ==
    LET expected == get_range(mem, expected_ptr, expected_size)
        actual == get_range(mem, actual_ptr, actual_size)
        common == IF expected_size < actual_size THEN expected_size ELSE actual_size
        differ == \E i \in 1..common : expected[i] # actual[i]
    IN
    [kind |-> IF differ THEN "AssertionFailed" ELSE "Ok",
     expected |-> IF differ THEN expected ELSE <<>>,
     actual |-> IF differ THEN actual ELSE <<>>,
     compared |-> TRUE,
     expected_ptr |-> expected_ptr, expected_size |-> expected_size,
     actual_ptr |-> actual_ptr, actual_size |-> actual_size]

\* Mutation: the ranges are read as continuous ranges, an unwritten cell
\* being an error of its own.
assert_memory_ranges_equal_continuous(mem, expected_ptr, expected_size, actual_ptr, actual_size) ==
    LET expected == get_range(mem, expected_ptr, expected_size)
        actual == get_range(mem, actual_ptr, actual_size)
        gap == \/ \E i \in 1..expected_size : expected[i] = None
               \/ \E i \in 1..actual_size : actual[i] = None
    IN
    [kind |-> IF gap THEN "UnknownMemoryCell"
              ELSE IF expected # actual THEN "AssertionFailed" ELSE "Ok",
     expected |-> IF ~gap /\ expected # actual THEN expected ELSE <<>>,
     actual |-> IF ~gap /\ expected # actual THEN actual ELSE <<>>,
     compared |-> TRUE,
     expected_ptr |-> expected_ptr, expected_size |-> expected_size,
     actual_ptr |-> actual_ptr, actual_size |-> actual_size]

\* assert_memory_ranges_equal: Ok when the two ranges are equal as vectors,
\* else AssertionFailed("Return value mismatch expected=.., actual=..").
assert_memory_ranges_equal(mem, expected_ptr, expected_size, actual_ptr, actual_size) ==
    LET expected == get_range(mem, expected_ptr, expected_size)
        actual == get_range(mem, actual_ptr, actual_size)
    IN
    [kind |-> IF expected # actual THEN "AssertionFailed" ELSE "Ok",
     expected |-> IF expected # actual THEN expected ELSE <<>>,
     actual |-> IF expected # actual THEN actual ELSE <<>>,
     compared |-> TRUE,
     expected_ptr |-> expected_ptr, expected_size |-> expected_size,
     actual_ptr |-> actual_ptr, actual_size |-> actual_size]

\* The program's side of every check: ids.retdata and ids.retdata_size,
\* then the comparison.
check_against_program(mem, frame, expected_ptr, expected_size) ==
    LET retdata == get_ptr_from_var_name(mem, frame, "retdata")
        size_felt == get_integer_from_var_name(mem, frame, "retdata_size")
        retdata_size == felt_to_usize(size_felt.value)
    IN
    IF ~retdata.ok THEN CheckError("IdentifierNotRelocatable")
    ELSE IF ~size_felt.ok THEN CheckError("IdentifierNotInteger")
    ELSE IF ~retdata_size.ok THEN CheckError("FeltToUsize")
    ELSE assert_memory_ranges_equal(mem, expected_ptr, expected_size,
                                    retdata.value, retdata_size.value)

\* check_syscall_response: the legacy envelope (retdata, retdata_size)
check_syscall_response_result(mem, frame) ==
    LET call_response_ptr == get_ptr_from_var_name(mem, frame, "call_response")
        retdata == vm_get_relocatable(mem,
                      relocatable_add(call_response_ptr.value, retdata_offset))
        size_felt == vm_get_integer(mem,
                      relocatable_add(call_response_ptr.value, retdata_size_offset))
        size == felt_to_usize(size_felt.value)
    IN
    IF ~call_response_ptr.ok THEN CheckError("IdentifierNotRelocatable")
    ELSE IF ~retdata.ok THEN CheckError("ExpectedRelocatable")
    ELSE IF ~size_felt.ok THEN CheckError("ExpectedInteger")
    ELSE IF ~size.ok THEN CheckError("FeltToUsize")
    ELSE check_against_program(mem, frame, retdata.value, size.value)

\* The checks of the current encoding: (start, end) at the given offsets of
\* ids.response, the length being end - start.
check_ranged_response(mem, frame, start_offset, end_offset) ==
    LET response_ptr == get_ptr_from_var_name(mem, frame, "response")
        start == vm_get_relocatable(mem, relocatable_add(response_ptr.value, start_offset))
        end == vm_get_relocatable(mem, relocatable_add(response_ptr.value, end_offset))
        size == relocatable_sub(end.value, start.value)
    IN
    IF ~response_ptr.ok THEN CheckError("IdentifierNotRelocatable")
    ELSE IF ~start.ok THEN CheckError("ExpectedRelocatable")
    ELSE IF ~end.ok THEN CheckError("ExpectedRelocatable")
    ELSE IF ~size.ok THEN CheckError("RelocatableSub")
    ELSE check_against_program(mem, frame, start.value, size.value)

check_new_syscall_response_result(mem, frame) ==
    check_ranged_response(mem, frame, retdata_start_offset, retdata_end_offset)

check_new_deploy_response_result(mem, frame) ==
    check_ranged_response(mem, frame, constructor_retdata_start_offset,
                          constructor_retdata_end_offset)

\* A verifier hint runs: it changes nothing, and an Err ends the run.
check_hint(hint, result) ==
    /\ ~halted
    /\ last' = [hint |-> hint, result |-> result]
    /\ halted' = (result.kind # "Ok")
    /\ UNCHANGED <<num_segments, memory, fp, exec_scopes, pending, hist>>

check_syscall_response ==
    check_hint("check_syscall_response", check_syscall_response_result(memory, fp))

check_new_syscall_response ==
    check_hint("check_new_syscall_response", check_new_syscall_response_result(memory, fp))

check_new_deploy_response ==
    check_hint("check_new_deploy_response", check_new_deploy_response_result(memory, fp))

(***************************************************************************)
(* The memories the verifier is applied to.                                 *)
(***************************************************************************)
ResponseSegment == 2
ExpectedSegment == 3
ActualSegment == 4

CellValues == {None, Felt(1), Felt(2)}
DataCells == {ExpectedSegment, ActualSegment} \X (0..(MaxLen - 1))
Sizes == 0..(MaxLen + 1)

\* The written part of an assignment of values to cells.
Written(f) == [a \in {x \in DOMAIN f : f[x] # None} |-> f[a]]

\* The end pointers a handler or a faulty caller may leave in a response.
EndPointers(start, k) ==
    (IF k <= UsizeMax THEN {Rel(start[2], start[3] + k)} ELSE {})
      \cup (IF start[3] > 0 THEN {Rel(start[2], start[3] - 1)} ELSE {})
      \cup {Rel(ActualSegment, 0)}

\* One legacy response (k, P) at offset 0 of the response segment and one
\* current response at offset 2; a deploy response at offset 4 carries the
\* same (start, end) after its contract_address.
ResponseMemory(P, k, end) ==
    (<<ResponseSegment, 0 + retdata_size_offset>> :> Felt(k))
    @@ (<<ResponseSegment, 0 + retdata_offset>> :> P)
    @@ (<<ResponseSegment, 2 + retdata_start_offset>> :> P)
    @@ (<<ResponseSegment, 2 + retdata_end_offset>> :> end)
    @@ (<<ResponseSegment, 4>> :> Felt(1))
    @@ (<<ResponseSegment, 4 + constructor_retdata_start_offset>> :> P)
    @@ (<<ResponseSegment, 4 + constructor_retdata_end_offset>> :> end)

ProgramMemory(frame, retdata, retdata_size, response) ==
    (ids_addr(frame, "call_response") :> Rel(ResponseSegment, 0))
    @@ (ids_addr(frame, "response") :> response)
    @@ (ids_addr(frame, "retdata") :> retdata)
    @@ (ids_addr(frame, "retdata_size") :> Felt(retdata_size))

NoCheck == [hint |-> "none", result |-> CheckError("none")]

InitRange ==
    /\ num_segments = 5
    /\ fp = FirstFp
    /\ exec_scopes = EmptyScopes
    /\ pending = "none"
    /\ halted = FALSE
    /\ last = NoCheck
    /\ hist = <<>>
    /\ \E data \in [DataCells -> CellValues],
          P \in {Rel(ExpectedSegment, 0), Rel(ExpectedSegment, 1)},
          k \in Sizes, retdata_size \in Sizes :
         \E end \in EndPointers(P, k),
            response \in {Rel(ResponseSegment, 2), Rel(ResponseSegment, 4)} :
            memory = Written(data) @@ ResponseMemory(P, k, end)
                       @@ ProgramMemory(FirstFp, Rel(ActualSegment, 0), retdata_size, response)

NextRange ==
    \/ check_syscall_response
    \/ check_new_syscall_response
    \/ check_new_deploy_response

SpecRange == InitRange /\ [][NextRange]_vars

(***************************************************************************)
(* cache_contract_storage                                                   *)
(***************************************************************************)
\* Field offsets of the StorageRead request (crate::cairo_types::syscalls).
storage_read_request_offset == 0
storage_read_request_address_offset == 1

\* ExecutionHelperWrapper::read_storage_for_address: the cached value of
\* (contract address, key), or an error when the oracle has none.
read_storage_for_address(helper, contract_address, key) ==
    LET pair == <<contract_address[2], key[2]>> IN
    IF pair \in DOMAIN helper.storage_by_address
    THEN [ok |-> TRUE, value |-> Felt(helper.storage_by_address[pair])]
    ELSE [ok |-> FALSE, value |-> None]

StorageOutcome(kind, carries, contract_address, key, ids_value) ==
    [hint |-> "cache_contract_storage", kind |-> kind, carries |-> carries,
     contract_address |-> contract_address, key |-> key, ids_value |-> ids_value,
     inputs |-> <<>>]

NoStorageOutcome ==
    [hint |-> "none", kind |-> "none", carries |-> <<>>,
     contract_address |-> None, key |-> None, ids_value |-> None, inputs |-> <<>>]

\* Mutation: ids.value is compared with the key of the request.
inconsistent_storage_value_key(ids_value, value, key) == ids_value # key

\* `if ids_value != value`
inconsistent_storage_value(ids_value, value, key) == ids_value # value

\* Mutation: ids.value is resolved before the oracle is asked.
cache_contract_storage_2_value_first(mem, frame, scopes) ==
    LET contract_address == get_integer_from_var_name(mem, frame, "contract_address")
        syscall_ptr == get_ptr_from_var_name(mem, frame, "syscall_ptr")
        key == vm_get_integer(mem, relocatable_add(syscall_ptr.value,
                  storage_read_request_offset + storage_read_request_address_offset))
        helper == scopes.execution_helper
        read == read_storage_for_address(helper, contract_address.value, key.value)
        ids_value == get_integer_from_var_name(mem, frame, "value")
    IN
    IF ~contract_address.ok
    THEN StorageOutcome("IdentifierNotInteger", <<>>, None, None, None)
    ELSE IF ~syscall_ptr.ok
    THEN StorageOutcome("IdentifierNotRelocatable", <<>>, contract_address.value, None, None)
    ELSE IF ~key.ok
    THEN StorageOutcome("ExpectedInteger", <<>>, contract_address.value, None, None)
    ELSE IF ~helper.present
    THEN StorageOutcome("VariableNotInScope", <<>>, contract_address.value, key.value, None)
    ELSE IF ~ids_value.ok
    THEN StorageOutcome("IdentifierNotInteger", <<>>, contract_address.value, key.value, None)
    ELSE IF ~read.ok
    THEN StorageOutcome("StorageReadError", <<contract_address.value, key.value>>,
                        contract_address.value, key.value, None)
    ELSE IF inconsistent_storage_value(ids_value.value, read.value, key.value)
    THEN StorageOutcome("AssertionFailed", <<ids_value.value, read.value>>,
                        contract_address.value, key.value, ids_value.value)
    ELSE StorageOutcome("Ok", <<>>, contract_address.value, key.value, ids_value.value)

\* The result of cache_contract_storage_2, its steps in the order of the code.
\* StorageReadError is CustomHint("Storage read error, contract: {}, key: {}"),
\* AssertionFailed is "Inconsistent storage value: {ids_value} <> {value}.".
cache_contract_storage_2_result(mem, frame, scopes) ==
    LET contract_address == get_integer_from_var_name(mem, frame, "contract_address")
        syscall_ptr == get_ptr_from_var_name(mem, frame, "syscall_ptr")
        key == vm_get_integer(mem, relocatable_add(syscall_ptr.value,
                  storage_read_request_offset + storage_read_request_address_offset))
        helper == scopes.execution_helper
        read == read_storage_for_address(helper, contract_address.value, key.value)
        ids_value == get_integer_from_var_name(mem, frame, "value")
    IN
    IF ~contract_address.ok
    THEN StorageOutcome("IdentifierNotInteger", <<>>, None, None, None)
    ELSE IF ~syscall_ptr.ok
    THEN StorageOutcome("IdentifierNotRelocatable", <<>>, contract_address.value, None, None)
    ELSE IF ~key.ok
    THEN StorageOutcome("ExpectedInteger", <<>>, contract_address.value, None, None)
    ELSE IF ~helper.present
    THEN StorageOutcome("VariableNotInScope", <<>>, contract_address.value, key.value, None)
    ELSE IF ~read.ok
    THEN StorageOutcome("StorageReadError", <<contract_address.value, key.value>>,
                        contract_address.value, key.value, None)
    ELSE IF ~ids_value.ok
    THEN StorageOutcome("IdentifierNotInteger", <<>>, contract_address.value, key.value, None)
    ELSE IF inconsistent_storage_value(ids_value.value, read.value, key.value)
    THEN StorageOutcome("AssertionFailed", <<ids_value.value, read.value>>,
                        contract_address.value, key.value, ids_value.value)
    ELSE StorageOutcome("Ok", <<>>, contract_address.value, key.value, ids_value.value)

\* Mutation: a read consumes the cached value.
cache_contract_storage_2_scopes_consuming(scopes, outcome) ==
    IF outcome.kind \in {"Ok", "AssertionFailed"}
    THEN [scopes EXCEPT !.execution_helper.storage_by_address =
            [pair \in DOMAIN @ \ {<<outcome.contract_address[2], outcome.key[2]>>} |-> @[pair]]]
    ELSE scopes

\* Mutation: a value that differs from the oracle's is taken over by the oracle.
cache_contract_storage_2_scopes_memoizing(scopes, outcome) ==
    IF outcome.kind = "AssertionFailed"
    THEN [scopes EXCEPT !.execution_helper.storage_by_address =
            (<<outcome.contract_address[2], outcome.key[2]>> :> outcome.ids_value[2]) @@ @]
    ELSE scopes

\* The scope after the hint: the helper is read, nothing is stored.
cache_contract_storage_2_scopes(scopes, outcome) == scopes

\* The cells the hint is called on: ids.contract_address, the request's
\* address field and ids.value, kept with the outcome.
storage_inputs(mem, frame) ==
    LET syscall_ptr == Get(mem, ids_addr(frame, "syscall_ptr")) IN
    <<Get(mem, ids_addr(frame, "contract_address")),
      Get(mem, <<syscall_ptr[2], syscall_ptr[3] + storage_read_request_offset
                                  + storage_read_request_address_offset>>),
      Get(mem, ids_addr(frame, "value"))>>

cache_contract_storage_2 ==
    /\ ~halted
    /\ LET outcome == cache_contract_storage_2_result(memory, fp, exec_scopes) IN
       /\ last' = [outcome EXCEPT !.inputs = storage_inputs(memory, fp)]
       /\ halted' = (outcome.kind # "Ok")
       /\ exec_scopes' = cache_contract_storage_2_scopes(exec_scopes, outcome)
    /\ hist' = [prev |-> last, changed_between |-> hist.changed, changed |-> {}]
    /\ UNCHANGED <<num_segments, memory, fp, pending>>

(***************************************************************************)
(* The states cache_contract_storage is applied to.                         *)
(***************************************************************************)
ContractAddresses == {1, 2}
StorageKeys == {1, 2}
StorageValues == {7, 42}
RequestSegment == 2

\* The surrounding system writes a storage value into the oracle; hist
\* keeps the pairs written since the last hint (changed) and between the last
\* two hints (changed_between).
oracle_write ==
    /\ ~halted
    /\ exec_scopes.execution_helper.present
    /\ \E a \in ContractAddresses, k \in StorageKeys, v \in StorageValues :
          /\ (<<a, k>> \in DOMAIN exec_scopes.execution_helper.storage_by_address
                => exec_scopes.execution_helper.storage_by_address[<<a, k>>] # v)
          /\ exec_scopes' =
                [exec_scopes EXCEPT !.execution_helper.storage_by_address =
                    (<<a, k>> :> v) @@ @]
          /\ hist' = [hist EXCEPT !.changed = @ \cup {<<a, k>>}]
    /\ UNCHANGED <<num_segments, memory, fp, pending, halted, last>>

StorageMemory(frame, contract_address, key, value) ==
    (ids_addr(frame, "contract_address") :> Felt(contract_address))
    @@ (ids_addr(frame, "syscall_ptr") :> Rel(RequestSegment, 0))
    @@ (<<RequestSegment, storage_read_request_offset>> :> Felt(0))
    @@ (<<RequestSegment,
          storage_read_request_offset + storage_read_request_address_offset>> :> Felt(key))
    @@ Written(ids_addr(frame, "value") :> value)

InitStorage ==
    /\ num_segments = 3
    /\ fp = FirstFp
    /\ pending = "none"
    /\ halted = FALSE
    /\ last = NoStorageOutcome
    /\ hist = [prev |-> NoStorageOutcome, changed_between |-> {}, changed |-> {}]
    /\ \E a \in ContractAddresses, k \in StorageKeys,
          v \in {None} \cup {Felt(x) : x \in StorageValues} :
          memory = StorageMemory(FirstFp, a, k, v)
    /\ \E present \in BOOLEAN, cached \in SUBSET (ContractAddresses \X StorageKeys) :
          \E storage \in [cached -> StorageValues] :
             /\ (~present => cached = {})
             /\ exec_scopes = [EmptyScopes EXCEPT !.execution_helper =
                    [present |-> present, storage_by_address |-> storage]]

NextStorage ==
    \/ cache_contract_storage_2
    \/ oracle_write

SpecStorage == InitStorage /\ [][NextStorage]_vars

(***************************************************************************)
(* fetch_state_entry                                                        *)
(***************************************************************************)
FetchOutcome(kind, message, key, state_entry, new_state_entry) ==
    [hint |-> "fetch_state_entry", kind |-> kind, message |-> message,
     key |-> key, state_entry |-> state_entry, new_state_entry |-> new_state_entry,
     n |-> num_segments]

NoFetch ==
    [hint |-> "none", kind |-> "none", message |-> "", key |-> None,
     state_entry |-> None, new_state_entry |-> None, n |-> 0]

\* get_dict_manager()?.borrow().get_tracker(dict_ptr)?: the scope holds the
\* manager and dict_ptr is the tracker's current pointer
get_tracker(scopes, dict_ptr) ==
    /\ scopes.dict_manager.present
    /\ scopes.dict_manager.current_ptr = dict_ptr

\* Mutation: a default dictionary answers with the entry or its default value.
fetch_from_default_dictionary_substituting(dict, default_value, key) ==
    [kind |-> "Ok", message |-> "",
     value |-> IF key \in DOMAIN dict THEN dict[key] ELSE default_value]

\* The DefaultDictionary arm of the match: panic!
fetch_from_default_dictionary(dict, default_value, key) ==
    [kind |-> "Panic", message |-> "State changes dict shouldn't be a default dict",
     value |-> None]

\* Mutation: a key the dictionary does not hold is answered with 0.
fetch_from_simple_dictionary_defaulting(dict, key) ==
    [kind |-> "Ok", message |-> "",
     value |-> IF key \in DOMAIN dict THEN dict[key] ELSE Felt(0)]

\* The SimpleDictionary arm of the match: dict.get(key).expect(..).clone()
fetch_from_simple_dictionary(dict, key) ==
    IF key \in DOMAIN dict
    THEN [kind |-> "Ok", message |-> "", value |-> dict[key]]
    ELSE [kind |-> "Panic", message |-> "State changes dictionnary shouldn't be None",
          value |-> None]

\* match tracker.data
fetch_from_tracker(manager, key) ==
    IF manager.kind = "SimpleDictionary"
    THEN fetch_from_simple_dictionary(manager.dict, key)
    ELSE fetch_from_default_dictionary(manager.dict, manager.default_value, key)

\* Mutation: the new entry is put in the last segment there is.
fetch_new_state_entry_reusing(n) == Rel(n - 1, 0)

\* vm.add_memory_segment() on a VM that has n segments
fetch_new_state_entry(n) == Rel(n, 0)

\* Mutation: the new entry is committed to the dictionary at once.
fetch_state_entry_5_scopes_committing(scopes, key, new) ==
    [scopes EXCEPT !.dict_manager.dict = (key[2] :> new) @@ @]

\* The scope after the hint: the dict manager is borrowed and the tracker's
\* data cloned; nothing is inserted.
fetch_state_entry_5_scopes(scopes, key, new) == scopes

fetch_state_entry_5 ==
    /\ ~halted
    /\ num_segments < MaxSegments
    /\ LET key == get_integer_from_var_name(memory, fp, "contract_address")
           dict_ptr == get_ptr_from_var_name(memory, fp, "contract_state_changes")
           val == fetch_from_tracker(exec_scopes.dict_manager, key.value[2])
           w1 == insert_value_from_var_name(memory, fp, "state_entry", val.value)
           new == fetch_new_state_entry(num_segments)
           w2 == insert_value_from_var_name(w1.memory, fp, "new_state_entry", new)
           early == IF ~key.ok THEN "IdentifierNotInteger"
                    ELSE IF ~dict_ptr.ok THEN "IdentifierNotRelocatable"
                    ELSE IF ~get_tracker(exec_scopes, dict_ptr.value) THEN "NoDictTracker"
                    ELSE IF val.kind = "Panic" THEN "Panic"
                    ELSE IF ~w1.ok THEN "InconsistentMemory"
                    ELSE "none"
       IN
       IF early # "none"
       THEN /\ last' = FetchOutcome(early, IF early = "Panic" THEN val.message ELSE "",
                                    key.value, None, None)
            /\ halted' = TRUE
            /\ UNCHANGED <<num_segments, memory, exec_scopes, hist>>
       ELSE /\ num_segments' = num_segments + 1
            /\ exec_scopes' = fetch_state_entry_5_scopes(exec_scopes, key.value, new)
            /\ memory' = w2.memory
            /\ last' = FetchOutcome(IF w2.ok THEN "Ok" ELSE "InconsistentMemory", "",
                                    key.value, val.value, IF w2.ok THEN new ELSE None)
            /\ halted' = ~w2.ok
            /\ hist' = IF w2.ok THEN Append(hist, [key |-> key.value, old |-> val.value,
                                                   new |-> new])
                       ELSE hist
    /\ UNCHANGED <<fp, pending>>

(***************************************************************************)
(* The states fetch_state_entry is applied to.                              *)
(***************************************************************************)
DictSegment == 2
StateSegment == 3
StateEntrySize == 3
DictKeys == {1, 2, 3}

\* The state entries the dictionary starts with.
InitialEntries == {Rel(StateSegment, 0), Rel(StateSegment, StateEntrySize)}

\* The cells of the state entries the dictionary starts with.
StateEntryMemory ==
    [a \in {StateSegment} \X (0..(2 * StateEntrySize - 1)) |-> Felt(a[2] + 1)]

FetchMemory(frame, contract_address) ==
    (ids_addr(frame, "contract_address") :> Felt(contract_address))
    @@ (ids_addr(frame, "contract_state_changes") :> Rel(DictSegment, 0))

\* A later hint commits the new entry of the fetch that just ran back into
\* the dictionary.
dict_write ==
    /\ ~halted
    /\ last.hint = "fetch_state_entry"
    /\ last.kind = "Ok"
    /\ exec_scopes' = [exec_scopes EXCEPT !.dict_manager.dict =
            (last.key[2] :> last.new_state_entry) @@ @]
    /\ last' = NoFetch
    /\ UNCHANGED <<num_segments, memory, fp, pending, halted, hist>>

\* The program reaches the next fetch_state_entry, for some contract address,
\* in a new frame.
next_fetch ==
    /\ ~halted
    /\ NextFrameExists(fp)
    /\ \E contract_address \in DictKeys :
          memory' = FetchMemory(fp + FrameSize, contract_address) @@ memory
    /\ fp' = fp + FrameSize
    /\ last' = NoFetch
    /\ UNCHANGED <<num_segments, exec_scopes, pending, halted, hist>>

InitDict ==
    /\ num_segments = 4
    /\ fp = FirstFp
    /\ pending = "none"
    /\ halted = FALSE
    /\ last = NoFetch
    /\ hist = <<>>
    /\ \E contract_address \in DictKeys :
          memory = FetchMemory(FirstFp, contract_address) @@ StateEntryMemory
    /\ \E kind \in {"SimpleDictionary", "DefaultDictionary"},
          keys \in SUBSET DictKeys, default_value \in {Felt(0)} \cup InitialEntries :
          \E dict \in [keys -> InitialEntries] :
             /\ (kind = "SimpleDictionary" => default_value = Felt(0))
             /\ exec_scopes = [EmptyScopes EXCEPT !.dict_manager =
                    [present |-> TRUE, current_ptr |-> Rel(DictSegment, 0),
                     kind |-> kind, dict |-> dict, default_value |-> default_value]]

NextDict ==
    \/ fetch_state_entry_5
    \/ dict_write
    \/ next_fetch

SpecDict == InitDict /\ [][NextDict]_vars

(***************************************************************************)
(* The telemetry hints: the enter-syscall hint and the exit_*_syscall hints, *)
(* each of which calls exit_syscall with the name of its selector.          *)
(***************************************************************************)
TelemetryOutcome(hint, selector_name, result) ==
    [hint |-> hint, result |-> result, calls |-> <<>>, n |-> num_segments,
     before |-> exec_scopes.syscall_handler.ptr, arg |-> None,
     selector |-> selector_name]

\* Mutation: the logger's failure is returned by the hint.
telemetry_result_failing(selector_name) == "TelemetryError"

\* println!(..); Ok(())
telemetry_result(selector_name) == "Ok"

\* The enter hint takes its selector from ids.selector and does not read it.
os_logger_enter_syscall_preprare_exit_syscall ==
    /\ ~halted
    /\ LET result == telemetry_result("ids.selector") IN
       /\ last' = TelemetryOutcome("os_logger_enter_syscall_preprare_exit_syscall",
                                   "ids.selector", result)
       /\ halted' = (result # "Ok")
    /\ UNCHANGED <<num_segments, memory, fp, exec_scopes, pending, hist>>

exit_syscall(selector_name) ==
    /\ ~halted
    /\ LET result == telemetry_result(selector_name) IN
       /\ last' = TelemetryOutcome("exit_syscall", selector_name, result)
       /\ halted' = (result # "Ok")
    /\ UNCHANGED <<num_segments, memory, fp, exec_scopes, pending, hist>>

exit_call_contract_syscall ==
    /\ ~halted
    /\ exit_syscall("CALL_CONTRACT_SELECTOR")
exit_delegate_call_syscall ==
    /\ ~halted
    /\ exit_syscall("DELEGATE_CALL_SELECTOR")
exit_delegate_l1_handler_syscall ==
    /\ ~halted
    /\ exit_syscall("DELEGATE_L1_HANDLER_SELECTOR")
exit_deploy_syscall ==
    /\ ~halted
    /\ exit_syscall("DEPLOY_SELECTOR")
exit_emit_event_syscall ==
    /\ ~halted
    /\ exit_syscall("EMIT_EVENT_SELECTOR")
exit_get_block_hash_syscall ==
    /\ ~halted
    /\ exit_syscall("GET_BLOCK_HASH_SELECTOR")
exit_get_block_timestamp_syscall ==
    /\ ~halted
    /\ exit_syscall("GET_BLOCK_TIMESTAMP_SELECTOR")
exit_get_caller_address_syscall ==
    /\ ~halted
    /\ exit_syscall("GET_CALLER_ADDRESS_SELECTOR")
exit_get_contract_address_syscall ==
    /\ ~halted
    /\ exit_syscall("GET_CONTRACT_ADDRESS_SELECTOR")
exit_get_execution_info_syscall ==
    /\ ~halted
    /\ exit_syscall("GET_EXECUTION_INFO_SELECTOR")
exit_get_sequencer_address_syscall ==
    /\ ~halted
    /\ exit_syscall("GET_SEQUENCER_ADDRESS_SELECTOR")
exit_get_tx_info_syscall ==
    /\ ~halted
    /\ exit_syscall("GET_TX_INFO_SELECTOR")
exit_get_tx_signature_syscall ==
    /\ ~halted
    /\ exit_syscall("GET_TX_SIGNATURE_SELECTOR")
exit_keccak_syscall ==
    /\ ~halted
    /\ exit_syscall("KECCAK_SELECTOR")
exit_library_call_l1_handler_syscall ==
    /\ ~halted
    /\ exit_syscall("LIBRARY_CALL_L1_HANDLER_SELECTOR")
exit_library_call_syscall ==
    /\ ~halted
    /\ exit_syscall("LIBRARY_CALL_SELECTOR")
exit_replace_class_syscall ==
    /\ ~halted
    /\ exit_syscall("REPLACE_CLASS_SELECTOR")
exit_secp256k1_add_syscall ==
    /\ ~halted
    /\ exit_syscall("SECP256K1_ADD_SELECTOR")
exit_secp256k1_get_point_from_x_syscall ==
    /\ ~halted
    /\ exit_syscall("SECP256K1_GET_POINT_FROM_X_SELECTOR")
exit_secp256k1_get_xy_syscall ==
    /\ ~halted
    /\ exit_syscall("SECP256K1_GET_XY_SELECTOR")
exit_secp256k1_mul_syscall ==
    /\ ~halted
    /\ exit_syscall("SECP256K1_MUL_SELECTOR")
exit_secp256k1_new_syscall ==
    /\ ~halted
    /\ exit_syscall("SECP256K1_NEW_SELECTOR")
exit_secp256r1_add_syscall ==
    /\ ~halted
    /\ exit_syscall("SECP256R1_ADD_SELECTOR")
exit_secp256r1_get_point_from_x_syscall ==
    /\ ~halted
    /\ exit_syscall("SECP256R1_GET_POINT_FROM_X_SELECTOR")
exit_secp256r1_get_xy_syscall ==
    /\ ~halted
    /\ exit_syscall("SECP256R1_GET_XY_SELECTOR")
exit_secp256r1_mul_syscall ==
    /\ ~halted
    /\ exit_syscall("SECP256R1_MUL_SELECTOR")
exit_secp256r1_new_syscall ==
    /\ ~halted
    /\ exit_syscall("SECP256R1_NEW_SELECTOR")
exit_send_message_to_l1_syscall ==
    /\ ~halted
    /\ exit_syscall("SEND_MESSAGE_TO_L1_SELECTOR")
exit_storage_read_syscall ==
    /\ ~halted
    /\ exit_syscall("STORAGE_READ_SELECTOR")
exit_storage_write_syscall ==
    /\ ~halted
    /\ exit_syscall("STORAGE_WRITE_SELECTOR")

\* The selector names the exit hints of the file carry.
ExitSelectors ==
    {"CALL_CONTRACT_SELECTOR", "DELEGATE_CALL_SELECTOR",
     "DELEGATE_L1_HANDLER_SELECTOR", "DEPLOY_SELECTOR",
     "EMIT_EVENT_SELECTOR", "GET_BLOCK_HASH_SELECTOR",
     "GET_BLOCK_TIMESTAMP_SELECTOR", "GET_CALLER_ADDRESS_SELECTOR",
     "GET_CONTRACT_ADDRESS_SELECTOR", "GET_EXECUTION_INFO_SELECTOR",
     "GET_SEQUENCER_ADDRESS_SELECTOR", "GET_TX_INFO_SELECTOR",
     "GET_TX_SIGNATURE_SELECTOR", "KECCAK_SELECTOR",
     "LIBRARY_CALL_L1_HANDLER_SELECTOR", "LIBRARY_CALL_SELECTOR",
     "REPLACE_CLASS_SELECTOR", "SECP256K1_ADD_SELECTOR",
     "SECP256K1_GET_POINT_FROM_X_SELECTOR", "SECP256K1_GET_XY_SELECTOR",
     "SECP256K1_MUL_SELECTOR", "SECP256K1_NEW_SELECTOR",
     "SECP256R1_ADD_SELECTOR", "SECP256R1_GET_POINT_FROM_X_SELECTOR",
     "SECP256R1_GET_XY_SELECTOR", "SECP256R1_MUL_SELECTOR",
     "SECP256R1_NEW_SELECTOR", "SEND_MESSAGE_TO_L1_SELECTOR",
     "STORAGE_READ_SELECTOR", "STORAGE_WRITE_SELECTOR"}

\* The selector the program enters a per-syscall hint's syscall under, and
\* asks the exit hint for: ids.<SYSCALL>_SELECTOR.
selector_of(syscall) ==
    CASE syscall = "call_contract" -> "CALL_CONTRACT_SELECTOR"
      [] syscall = "delegate_call" -> "DELEGATE_CALL_SELECTOR"
      [] syscall = "delegate_l1_handler" -> "DELEGATE_L1_HANDLER_SELECTOR"
      [] syscall = "deploy" -> "DEPLOY_SELECTOR"
      [] syscall = "emit_event" -> "EMIT_EVENT_SELECTOR"
      [] syscall = "get_block_number" -> "GET_BLOCK_NUMBER_SELECTOR"
      [] syscall = "get_block_timestamp" -> "GET_BLOCK_TIMESTAMP_SELECTOR"
      [] syscall = "get_caller_address" -> "GET_CALLER_ADDRESS_SELECTOR"
      [] syscall = "get_contract_address" -> "GET_CONTRACT_ADDRESS_SELECTOR"
      [] syscall = "get_sequencer_address" -> "GET_SEQUENCER_ADDRESS_SELECTOR"
      [] syscall = "get_tx_info" -> "GET_TX_INFO_SELECTOR"
      [] syscall = "get_tx_signature" -> "GET_TX_SIGNATURE_SELECTOR"
      [] syscall = "library_call" -> "LIBRARY_CALL_SELECTOR"
      [] syscall = "library_call_l1_handler" -> "LIBRARY_CALL_L1_HANDLER_SELECTOR"
      [] syscall = "replace_class" -> "REPLACE_CLASS_SELECTOR"
      [] syscall = "send_message_to_l1" -> "SEND_MESSAGE_TO_L1_SELECTOR"
      [] syscall = "storage_read" -> "STORAGE_READ_SELECTOR"
      [] syscall = "storage_write" -> "STORAGE_WRITE_SELECTOR"

(***************************************************************************)
(* The runs the telemetry hints are applied to: a contract issuing syscalls  *)
(* one after the other, on a scope with no handler or one of either kind.   *)
(***************************************************************************)
TelemetrySegment == 2

InitTelemetry ==
    /\ num_segments = 3
    /\ fp = FirstFp
    /\ memory = (ids_addr(FirstFp, "syscall_ptr") :> Rel(TelemetrySegment, 0))
    /\ \E handler \in {NoHandler,
                        [kind |-> "OsSyscallHandlerWrapper", ptr |-> Rel(TelemetrySegment, 0)],
                        [kind |-> "DeprecatedOsSyscallHandlerWrapper",
                         ptr |-> Rel(TelemetrySegment, 0)]} :
          exec_scopes = [EmptyScopes EXCEPT !.syscall_handler = handler]
    /\ pending = "none"
    /\ halted = FALSE
    /\ last = NoLast
    /\ hist = <<>>

NextTelemetry ==
    \/ os_logger_enter_syscall_preprare_exit_syscall
    \/ exit_call_contract_syscall
    \/ exit_delegate_call_syscall
    \/ exit_delegate_l1_handler_syscall
    \/ exit_deploy_syscall
    \/ exit_emit_event_syscall
    \/ exit_get_block_hash_syscall
    \/ exit_get_block_timestamp_syscall
    \/ exit_get_caller_address_syscall
    \/ exit_get_contract_address_syscall
    \/ exit_get_execution_info_syscall
    \/ exit_get_sequencer_address_syscall
    \/ exit_get_tx_info_syscall
    \/ exit_get_tx_signature_syscall
    \/ exit_keccak_syscall
    \/ exit_library_call_l1_handler_syscall
    \/ exit_library_call_syscall
    \/ exit_replace_class_syscall
    \/ exit_secp256k1_add_syscall
    \/ exit_secp256k1_get_point_from_x_syscall
    \/ exit_secp256k1_get_xy_syscall
    \/ exit_secp256k1_mul_syscall
    \/ exit_secp256k1_new_syscall
    \/ exit_secp256r1_add_syscall
    \/ exit_secp256r1_get_point_from_x_syscall
    \/ exit_secp256r1_get_xy_syscall
    \/ exit_secp256r1_mul_syscall
    \/ exit_secp256r1_new_syscall
    \/ exit_send_message_to_l1_syscall
    \/ exit_storage_read_syscall
    \/ exit_storage_write_syscall
    \/ call_contract
    \/ delegate_call
    \/ delegate_l1_handler
    \/ deploy
    \/ emit_event
    \/ get_block_number
    \/ get_block_timestamp
    \/ get_caller_address
    \/ get_contract_address
    \/ get_sequencer_address
    \/ get_tx_info
    \/ get_tx_signature
    \/ library_call
    \/ library_call_l1_handler
    \/ replace_class
    \/ send_message_to_l1
    \/ storage_read
    \/ storage_write
    \/ program_step

SpecTelemetry == InitTelemetry /\ [][NextTelemetry]_vars

(***************************************************************************)
(* Claims about the syscall lifecycle, checked under Spec.                  *)
(***************************************************************************)
SetSyscallPtrSucceeded == last.hint = "set_syscall_ptr" /\ last.result = "Ok"

\* C1: after set_syscall_ptr succeeds on a VM that had n segments, ids.os_context
\* holds (n, 0) and ids.syscall_ptr holds (n+1, 0): two distinct segments that
\* did not exist before the call, and the handler in the scope stores
\* Some(the address written to ids.syscall_ptr).
C1_SegmentExclusivity ==
    SetSyscallPtrSucceeded =>
        LET os_context == Get(memory, ids_addr(fp, "os_context"))
            syscall_ptr == Get(memory, ids_addr(fp, "syscall_ptr"))
        IN
        /\ os_context = Rel(last.n, 0)
        /\ syscall_ptr = Rel(last.n + 1, 0)
        /\ os_context # syscall_ptr
        /\ os_context[2] >= last.n /\ os_context[2] < num_segments
        /\ syscall_ptr[2] >= last.n /\ syscall_ptr[2] < num_segments
        /\ exec_scopes.syscall_handler.ptr = syscall_ptr

\* C1 witness: the test's case, segments 0-1 pre-exist and 2 and 3 are handed out.
C1_Witness ==
    /\ SetSyscallPtrSucceeded
    /\ last.n = 2
    /\ Get(memory, ids_addr(fp, "os_context")) = Rel(2, 0)
    /\ Get(memory, ids_addr(fp, "syscall_ptr")) = Rel(3, 0)
    /\ exec_scopes.syscall_handler.ptr = Rel(3, 0)

SyscallHintReachedHandler ==
    last.hint \in SyscallNames /\ last.result \in {"Ok", "HandlerError"}

\* C9: each per-syscall hint invokes exactly one handler method, the method
\* with the hint's own name, passing the syscall_ptr resolved from ids.
C9_HintInvokesOwnMethod ==
    SyscallHintReachedHandler =>
        /\ Len(last.calls) = 1
        /\ last.calls[1][1] = last.hint
        /\ last.calls[1][2] = last.arg

\* C10: after a per-syscall hint returns Ok, the handler's stored pointer is in
\* the segment it was in before and is past the request+response pair, at
\* ids.syscall_ptr, of the syscall the hint is for.
C10_PointerAdvancedPastPair ==
    (last.hint \in SyscallNames /\ last.result = "Ok") =>
        LET ptr == exec_scopes.syscall_handler.ptr IN
        /\ IsRel(ptr)
        /\ ptr[2] = last.before[2]
        /\ ptr[3] > last.before[3]
        /\ ptr[3] >= last.arg[3] + PairSize(last.hint)

\* C11: when set_syscall_ptr has succeeded and a per-syscall hint runs next on
\* the same execution scope, the hint finds the handler set_syscall_ptr used:
\* it does not fail on the scope lookup.
C11_SameHandlerResolved ==
    [][(SetSyscallPtrSucceeded /\ last'.hint \in SyscallNames)
          => last'.result # "VariableNotInScope"]_vars

\* C14: when the handler method a per-syscall hint calls fails, the hint
\* returns that failure and the run stops, for each of the 18 hints.
C14_HandlerFailureReturned ==
    (/\ last.hint \in SyscallNames
     /\ Len(last.calls) = 1
     /\ ~last.calls[1][3]) =>
        /\ last.result = "HandlerError"
        /\ halted

\* C18: when set_syscall_ptr fails on the handler lookup, the handler missing
\* or of another kind, the two segments it allocated and its writes of
\* ids.os_context and ids.syscall_ptr remain, and the scope's handler entry,
\* its stored pointer included, is what it was before the call.
C18_NoRollback ==
    (last.hint = "set_syscall_ptr" /\ last.result = "VariableNotInScope") =>
        /\ halted
        /\ num_segments = last.n + 2
        /\ Get(memory, ids_addr(fp, "os_context")) = Rel(last.n, 0)
        /\ Get(memory, ids_addr(fp, "syscall_ptr")) = Rel(last.n + 1, 0)
        /\ exec_scopes.syscall_handler.kind # "OsSyscallHandlerWrapper"
        /\ exec_scopes.syscall_handler.ptr = last.before

\* C18 witness: the scope holds a handler of the other kind, whose pointer is
\* in an older segment; the call fails and leaves segments 4 and 5 behind.
C18_Witness ==
    /\ last.hint = "set_syscall_ptr"
    /\ last.result = "VariableNotInScope"
    /\ exec_scopes.syscall_handler.kind = "DeprecatedOsSyscallHandlerWrapper"
    /\ IsRel(exec_scopes.syscall_handler.ptr)
    /\ last.n = 4
    /\ num_segments = 6
    /\ Get(memory, ids_addr(fp, "os_context")) = Rel(4, 0)
    /\ Get(memory, ids_addr(fp, "syscall_ptr")) = Rel(5, 0)

(***************************************************************************)
(* Claims about the response verifier, checked under SpecRange.             *)
(***************************************************************************)
RangeHints ==
    {"check_syscall_response", "check_new_syscall_response", "check_new_deploy_response"}

\* The cell i places after ptr.
CellAt(ptr, i) == Get(memory, <<ptr[2], ptr[3] + i>>)

\* The two ranges handed to assert_memory_ranges_equal agree in length and
\* cell by cell.
RangesAgree(r) ==
    /\ r.expected_size = r.actual_size
    /\ \A i \in 0..(r.expected_size - 1) :
          CellAt(r.expected_ptr, i) = CellAt(r.actual_ptr, i)

\* C2: assert_memory_ranges_equal(expected_ptr, n, actual_ptr, m) is Ok iff
\* n = m and every cell expected_ptr+i equals the cell actual_ptr+i; otherwise
\* it is AssertionFailed and carries the whole expected and the whole actual
\* sequence.
C2_RangeEqualityVerifier ==
    (last.hint \in RangeHints /\ last.result.compared) =>
        LET r == last.result IN
        /\ (r.kind = "Ok") <=> RangesAgree(r)
        /\ ~RangesAgree(r) =>
              /\ r.kind = "AssertionFailed"
              /\ Len(r.expected) = r.expected_size
              /\ Len(r.actual) = r.actual_size
              /\ \A i \in 1..r.expected_size :
                    r.expected[i] = CellAt(r.expected_ptr, i - 1)
              /\ \A i \in 1..r.actual_size :
                    r.actual[i] = CellAt(r.actual_ptr, i - 1)

\* C2 witness: two written ranges of the same length that differ in their
\* last element only are rejected.
C2_Witness ==
    /\ last.hint \in RangeHints
    /\ last.result.compared
    /\ last.result.kind = "AssertionFailed"
    /\ last.result.expected_size = MaxLen
    /\ last.result.actual_size = MaxLen
    /\ \A i \in 0..(MaxLen - 2) :
          /\ IsFelt(CellAt(last.result.expected_ptr, i))
          /\ CellAt(last.result.expected_ptr, i) = CellAt(last.result.actual_ptr, i)
    /\ IsFelt(CellAt(last.result.expected_ptr, MaxLen - 1))
    /\ IsFelt(CellAt(last.result.actual_ptr, MaxLen - 1))

\* The legacy response at ids.call_response and the current response at
\* ids.response carry the same logical retdata: retdata = retdata_start = P
\* and retdata_end = P + retdata_size.
SameLogicalRetdata ==
    LET legacy == Get(memory, ids_addr(fp, "call_response"))
        current == Get(memory, ids_addr(fp, "response"))
    IN
    /\ IsRel(legacy) /\ IsRel(current)
    /\ LET P == CellAt(legacy, retdata_offset)
           k == CellAt(legacy, retdata_size_offset)
           start == CellAt(current, retdata_start_offset)
           end == CellAt(current, retdata_end_offset)
       IN
       /\ IsRel(P) /\ IsFelt(k) /\ IsRel(start) /\ IsRel(end)
       /\ start = P
       /\ end = Rel(P[2], P[3] + k[2])

\* The program's (retdata, retdata_size) resolve to a pointer and a length.
ProgramSideResolves ==
    /\ IsRel(Get(memory, ids_addr(fp, "retdata")))
    /\ IsFelt(Get(memory, ids_addr(fp, "retdata_size")))
    /\ Get(memory, ids_addr(fp, "retdata_size"))[2] <= UsizeMax

\* C3: on the same memory and the same program-side (retdata, retdata_size),
\* check_syscall_response on (retdata = P, retdata_size = k) and
\* check_new_syscall_response on (retdata_start = P, retdata_end = P + k)
\* return the same verdict, Ok or the return-value mismatch.
C3_EncodingEquivalence ==
    SameLogicalRetdata =>
        /\ last.hint = "check_syscall_response" =>
              /\ last.result.kind = check_new_syscall_response_result(memory, fp).kind
              /\ ProgramSideResolves => last.result.kind \in {"Ok", "AssertionFailed"}
        /\ last.hint = "check_new_syscall_response" =>
              /\ last.result.kind = check_syscall_response_result(memory, fp).kind
              /\ ProgramSideResolves => last.result.kind \in {"Ok", "AssertionFailed"}

\* C3 witness: the current-encoding check rejects a non-empty expected range
\* that the legacy check rejects as well.
C3_Witness ==
    /\ SameLogicalRetdata
    /\ last.hint = "check_new_syscall_response"
    /\ last.result.kind = "AssertionFailed"
    /\ last.result.expected_size = MaxLen
    /\ last.result.actual_size = MaxLen
    /\ check_syscall_response_result(memory, fp).kind = "AssertionFailed"

RangedHints == {"check_new_syscall_response", "check_new_deploy_response"}

\* The (start, end) pair the hint that ran reads from the response at
\* ids.response, and the program's retdata_size.
RangedStart ==
    CellAt(Get(memory, ids_addr(fp, "response")),
           IF last.hint = "check_new_syscall_response"
           THEN retdata_start_offset ELSE constructor_retdata_start_offset)
RangedEnd ==
    CellAt(Get(memory, ids_addr(fp, "response")),
           IF last.hint = "check_new_syscall_response"
           THEN retdata_end_offset ELSE constructor_retdata_end_offset)
IdsRetdataSize == Get(memory, ids_addr(fp, "retdata_size"))

\* C19: in check_new_syscall_response and check_new_deploy_response the
\* expected length is end - start. With start and end in different segments,
\* or end below start, the hint returns an error and compares nothing; with
\* start = end the expected range is empty and the hint passes exactly when
\* the program's retdata_size is 0.
C19_PointerDifference ==
    (/\ last.hint \in RangedHints
     /\ IsRel(Get(memory, ids_addr(fp, "response")))
     /\ IsRel(RangedStart) /\ IsRel(RangedEnd)) =>
        LET r == last.result IN
        /\ (RangedEnd[2] # RangedStart[2] \/ RangedEnd[3] < RangedStart[3]) =>
              /\ r.kind = "RelocatableSub"
              /\ ~r.compared
              /\ halted
        /\ r.compared =>
              /\ r.expected_ptr = RangedStart
              /\ r.expected_size = RangedEnd[3] - RangedStart[3]
        /\ RangedStart = RangedEnd =>
              ((r.kind = "Ok") <=> (IdsRetdataSize = Felt(0)))

\* C19 witness: a deploy response whose constructor_retdata_end lies in another
\* segment than its constructor_retdata_start.
C19_Witness ==
    /\ last.hint = "check_new_deploy_response"
    /\ IsRel(RangedStart) /\ IsRel(RangedEnd)
    /\ RangedEnd[2] # RangedStart[2]
    /\ last.result.kind = "RelocatableSub"
    /\ halted

\* C20: assert_memory_ranges_equal compares an unwritten cell as a value of
\* its own and never fails on it otherwise: ranges of one length that are
\* unwritten at the same places and equal elsewhere pass, and a place
\* unwritten in one range and written in the other gives the mismatch error.
C20_UnwrittenCellsComparable ==
    (last.hint \in RangeHints /\ last.result.compared) =>
        LET r == last.result
            common == IF r.expected_size < r.actual_size
                      THEN r.expected_size ELSE r.actual_size
        IN
        /\ r.kind \in {"Ok", "AssertionFailed"}
        /\ (/\ r.expected_size = r.actual_size
            /\ \A i \in 0..(common - 1) :
                  /\ (CellAt(r.expected_ptr, i) = None) <=> (CellAt(r.actual_ptr, i) = None)
                  /\ CellAt(r.expected_ptr, i) # None =>
                        CellAt(r.expected_ptr, i) = CellAt(r.actual_ptr, i))
              => r.kind = "Ok"
        /\ (\E i \in 0..(common - 1) :
                (CellAt(r.expected_ptr, i) = None) # (CellAt(r.actual_ptr, i) = None))
              => r.kind = "AssertionFailed"

\* C20 witness: check_syscall_response passes on two ranges of the largest
\* length of which no cell was ever written.
C20_Witness ==
    /\ last.hint = "check_syscall_response"
    /\ last.result.compared
    /\ last.result.kind = "Ok"
    /\ last.result.expected_size = MaxLen
    /\ \A i \in 0..(MaxLen - 1) :
          /\ CellAt(last.result.expected_ptr, i) = None
          /\ CellAt(last.result.actual_ptr, i) = None

(***************************************************************************)
(* Claims about cache_contract_storage, checked under SpecStorage.          *)
(***************************************************************************)
\* What the hint's inputs are in the current state.
IdsContractAddress == Get(memory, ids_addr(fp, "contract_address"))
RequestKey ==
    CellAt(Get(memory, ids_addr(fp, "syscall_ptr")),
           storage_read_request_offset + storage_read_request_address_offset)
IdsValue == Get(memory, ids_addr(fp, "value"))
RequestPair == <<IdsContractAddress[2], RequestKey[2]>>
OracleStorage == exec_scopes.execution_helper.storage_by_address

\* The hint was the last thing to run and the oracle is as the hint saw it.
StorageHintJustRan == last.hint = "cache_contract_storage" /\ hist.changed = {}

\* C4: when the oracle holds v for (ids.contract_address, request key) and
\* ids.value holds w, the hint fails with the assertion error carrying w and v
\* if w # v, and returns Ok if w = v.
C4_MismatchReported ==
    (/\ StorageHintJustRan
     /\ exec_scopes.execution_helper.present
     /\ RequestPair \in DOMAIN OracleStorage
     /\ IsFelt(IdsValue)) =>
        IF IdsValue[2] # OracleStorage[RequestPair]
        THEN /\ last.kind = "AssertionFailed"
             /\ last.carries = <<IdsValue, Felt(OracleStorage[RequestPair])>>
        ELSE last.kind = "Ok"

\* C4 witness: oracle value 42, ids.value 7, the error carries 7 and 42.
C4_Witness ==
    /\ StorageHintJustRan
    /\ RequestPair \in DOMAIN OracleStorage
    /\ OracleStorage[RequestPair] = 42
    /\ IdsValue = Felt(7)
    /\ last.kind = "AssertionFailed"
    /\ last.carries = <<Felt(7), Felt(42)>>

\* C5: when the oracle has no value for (contract_address, key) the hint
\* returns the storage-read error naming that address and key, whatever
\* ids.value holds, unwritten included.
C5_LookupFailureFirst ==
    (/\ StorageHintJustRan
     /\ exec_scopes.execution_helper.present
     /\ RequestPair \notin DOMAIN OracleStorage) =>
        /\ last.kind = "StorageReadError"
        /\ last.carries = <<IdsContractAddress, RequestKey>>

\* C5 witness: the lookup fails while ids.value was never written.
C5_Witness ==
    /\ StorageHintJustRan
    /\ exec_scopes.execution_helper.present
    /\ RequestPair \notin DOMAIN OracleStorage
    /\ IdsValue = None
    /\ last.kind = "StorageReadError"

\* Two calls in a row on the same address, key and ids.value, the oracle's
\* value for that pair not written between them.
TwoCallsSameInputs ==
    /\ last.hint = "cache_contract_storage"
    /\ hist.prev.hint = "cache_contract_storage"
    /\ last.inputs = hist.prev.inputs
    /\ <<last.inputs[1][2], last.inputs[2][2]>> \notin hist.changed_between

\* C6: the second of two such calls gives the result of the first; if the
\* first passes, the second passes.
C6_Idempotent ==
    TwoCallsSameInputs =>
        /\ last.kind = hist.prev.kind
        /\ hist.prev.kind = "Ok" => last.kind = "Ok"

\* C6 witness: two passing calls, another pair of the oracle written between.
C6_Witness ==
    /\ TwoCallsSameInputs
    /\ hist.prev.kind = "Ok"
    /\ last.kind = "Ok"
    /\ hist.changed_between # {}

FetchSucceeded == last.hint = "fetch_state_entry" /\ last.kind = "Ok"

\* C7: after every successful fetch_state_entry the value written to
\* ids.state_entry differs from the address written to ids.new_state_entry,
\* for every contract address and after any sequence of calls, and the
\* new-entry addresses of different calls are pairwise distinct.
C7_StateEntryNonAliasing ==
    /\ FetchSucceeded =>
          /\ Get(memory, ids_addr(fp, "state_entry")) = last.state_entry
          /\ Get(memory, ids_addr(fp, "new_state_entry")) = last.new_state_entry
          /\ IsRel(last.new_state_entry)
          /\ last.state_entry # last.new_state_entry
    /\ \A i, j \in 1..Len(hist) :
          /\ hist[i].old # hist[i].new
          /\ i # j => hist[i].new # hist[j].new

\* C7 witness: a second successful call, for another contract address, after
\* the first call's new entry was committed to the dictionary.
C7_Witness ==
    /\ FetchSucceeded
    /\ Len(hist) = 2
    /\ hist[1].key # hist[2].key
    /\ exec_scopes.dict_manager.dict[hist[1].key[2]] = hist[1].new

\* C8: on a default-valued dictionary fetch_state_entry fails with the
\* invariant violation (the panic of the DefaultDictionary arm); it never
\* returns Ok and never writes ids.state_entry.
C8_DefaultDictRejected ==
    (/\ last.hint = "fetch_state_entry"
     /\ exec_scopes.dict_manager.kind = "DefaultDictionary") =>
        /\ last.kind = "Panic"
        /\ last.message = "State changes dict shouldn't be a default dict"
        /\ halted
        /\ Get(memory, ids_addr(fp, "state_entry")) = None
        /\ Get(memory, ids_addr(fp, "new_state_entry")) = None

\* C8 witness: the default dictionary has no entry for the address, so a
\* substituting lookup would have answered with the default value.
C8_Witness ==
    /\ last.hint = "fetch_state_entry"
    /\ exec_scopes.dict_manager.kind = "DefaultDictionary"
    /\ last.key[2] \notin DOMAIN exec_scopes.dict_manager.dict
    /\ last.kind = "Panic"

\* C15: on a plain dictionary that has no entry for ids.contract_address,
\* fetch_state_entry ends the run with the invariant violation (the panic of
\* expect) and not with a result; ids.state_entry and ids.new_state_entry are
\* unwritten and no segment was allocated.
C15_MissingEntryFatal ==
    (/\ last.hint = "fetch_state_entry"
     /\ IsFelt(last.key)
     /\ get_tracker(exec_scopes, Get(memory, ids_addr(fp, "contract_state_changes")))
     /\ exec_scopes.dict_manager.kind = "SimpleDictionary"
     /\ last.key[2] \notin DOMAIN exec_scopes.dict_manager.dict) =>
        /\ last.kind = "Panic"
        /\ last.message = "State changes dictionnary shouldn't be None"
        /\ halted
        /\ Get(memory, ids_addr(fp, "state_entry")) = None
        /\ Get(memory, ids_addr(fp, "new_state_entry")) = None
        /\ num_segments = last.n

\* C15 witness: the dictionary holds other addresses, one of them fetched
\* earlier in the run, and has none for the address asked for now.
C15_Witness ==
    /\ last.hint = "fetch_state_entry"
    /\ last.kind = "Panic"
    /\ exec_scopes.dict_manager.kind = "SimpleDictionary"
    /\ exec_scopes.dict_manager.dict # EmptyDict
    /\ last.key[2] \notin DOMAIN exec_scopes.dict_manager.dict
    /\ Len(hist) = 1

\* C16: a fetch_state_entry call leaves the state-changes dictionary, the
\* rest of the scope and every written cell as they were; a successful call
\* adds exactly one segment, writes only ids.state_entry and
\* ids.new_state_entry, the latter pointing at the new segment, and writes
\* nothing into that segment.
C16_DictionaryUntouched ==
    [][last'.hint = "fetch_state_entry" =>
          /\ exec_scopes' = exec_scopes
          /\ \A a \in DOMAIN memory : a \in DOMAIN memory' /\ memory'[a] = memory[a]
          /\ last'.kind = "Ok" =>
                /\ num_segments' = num_segments + 1
                /\ DOMAIN memory' \subseteq
                      DOMAIN memory \cup {ids_addr(fp, "state_entry"),
                                          ids_addr(fp, "new_state_entry")}
                /\ memory'[ids_addr(fp, "state_entry")] = last'.state_entry
                /\ memory'[ids_addr(fp, "new_state_entry")] = Rel(num_segments, 0)
                /\ \A a \in DOMAIN memory' : a[1] # num_segments]_vars

\* C16 witness: a successful call has fetched an entry of the dictionary; the
\* dictionary still maps the address to that entry and the entry's cells are
\* as they were written.
C16_Witness ==
    /\ FetchSucceeded
    /\ last.state_entry \in InitialEntries
    /\ exec_scopes.dict_manager.dict[last.key[2]] = last.state_entry
    /\ \A i \in 0..(StateEntrySize - 1) :
          CellAt(last.state_entry, i) = StateEntryMemory[<<StateSegment, last.state_entry[3] + i>>]
    /\ num_segments = last.n + 1
    /\ Cardinality(DOMAIN exec_scopes.dict_manager.dict) = 2

(***************************************************************************)
(* Claims about the telemetry hints, checked under SpecTelemetry.           *)
(***************************************************************************)
TelemetryHints == {"os_logger_enter_syscall_preprare_exit_syscall", "exit_syscall"}

\* C12: the enter-syscall hint and every exit_*_syscall hint return Ok and
\* leave VM memory, the number of segments, the execution scope and the
\* handler in it unchanged, in whatever state they run.
C12_TelemetryInert ==
    [][last'.hint \in TelemetryHints =>
          /\ last'.result = "Ok"
          /\ ~halted'
          /\ memory' = memory
          /\ num_segments' = num_segments
          /\ exec_scopes' = exec_scopes
          /\ fp' = fp
          /\ pending' = pending]_vars

\* C12 witness: the exit hint of storage_read has run after the storage_read
\* hint moved the handler's pointer, in the second frame of the run.
C12_Witness ==
    /\ last.hint = "exit_syscall"
    /\ last.selector = "STORAGE_READ_SELECTOR"
    /\ last.result = "Ok"
    /\ pending = "storage_read"
    /\ fp = FirstFp + FrameSize
    /\ exec_scopes.syscall_handler.ptr =
          relocatable_add(Get(memory, ids_addr(fp, "syscall_ptr")), PairSize("storage_read"))
    /\ ~halted

\* C13: every syscall that has a per-syscall hint has an exit hint carrying
\* its selector: when a per-syscall hint has served the program's request,
\* the file holds the exit hint the program calls next.
C13_EverySyscallHasExit ==
    pending # "none" => selector_of(pending) \in ExitSelectors

====
